---------------------------- MODULE Spec2Model ----------------------------
(***************************************************************************)
(* Model of controllers/bootcamps.js: the list handler getBootcamps (query *)
(* building, pagination, response) and the photo upload handler            *)
(* bootcampPhotoUpload, over a small document store.                       *)
(*                                                                         *)
(* Text is a sequence of one-character strings.  A JavaScript object is a  *)
(* sequence of <<key, value>> pairs in insertion order.  A query value is  *)
(* a record [kind, text, entries]: kind "text" (a string), "map" (a nested *)
(* object whose values are strings) or "undefined".                        *)
(***************************************************************************)
EXTENDS Integers, Sequences, FiniteSets, TLC

\* ------------------------------------------------------------------ bounds
MaxDocs == 3      \* largest collection
MaxNum  == 2      \* page and limit texts range over -MaxNum..MaxNum
MaxSize == 2      \* largest uploaded file size

\* ------------------------------------------------------------ values, text
Undefined == [kind |-> "undefined", text |-> <<>>, entries |-> <<>>]
Text(s)   == [kind |-> "text", text |-> s, entries |-> <<>>]
Map(es)   == [kind |-> "map", text |-> <<>>, entries |-> es]

DigitChars == <<"0", "1", "2", "3", "4", "5", "6", "7", "8", "9">>
DigitSet   == {DigitChars[i] : i \in 1..10}
DigitValue(c) == (CHOOSE i \in 1..10 : DigitChars[i] = c) - 1

\* \w of the regular expression: [A-Za-z0-9_]
WordChars ==
  DigitSet \cup
  {"a","b","c","d","e","f","g","h","i","j","k","l","m",
   "n","o","p","q","r","s","t","u","v","w","x","y","z",
   "A","B","C","D","E","F","G","H","I","J","K","L","M",
   "N","O","P","Q","R","S","T","U","V","W","X","Y","Z","_"}
IsWordChar(c) == c \in WordChars

\* String.prototype.startsWith
StartsWith(s, p) == Len(s) >= Len(p) /\ SubSeq(s, 1, Len(p)) = p

\* String.prototype.split with a one-character separator: "" splits into [""]
RECURSIVE Split(_, _)
Split(s, sep) ==
  IF \A i \in 1..Len(s) : s[i] # sep
    THEN <<s>>
    ELSE LET i == CHOOSE k \in 1..Len(s) :
                    s[k] = sep /\ \A j \in 1..(k - 1) : s[j] # sep
         IN <<SubSeq(s, 1, i - 1)>> \o Split(SubSeq(s, i + 1, Len(s)), sep)

\* Array.prototype.join with a one-character separator
RECURSIVE Join(_, _)
Join(parts, sep) ==
  IF parts = <<>> THEN <<>>
  ELSE IF Len(parts) = 1 THEN parts[1]
  ELSE parts[1] \o <<sep>> \o Join(Tail(parts), sep)

\* ---------------------------------------------------------------- objects
Keys(obj) == {obj[i][1] : i \in 1..Len(obj)}
Has(obj, k) == k \in Keys(obj)

\* obj[k]: undefined when the key is missing
Get(obj, k) ==
  IF Has(obj, k) THEN obj[CHOOSE i \in 1..Len(obj) : obj[i][1] = k][2]
  ELSE Undefined

\* obj[k] = v: an existing key keeps its position
Put(obj, k, v) ==
  IF Has(obj, k)
    THEN [i \in 1..Len(obj) |-> IF obj[i][1] = k THEN <<k, v>> ELSE obj[i]]
    ELSE Append(obj, <<k, v>>)

\* delete obj[k]
Delete(obj, k) == SelectSeq(obj, LAMBDA e : e[1] # k)

\* ---------------------------------------------------------- JSON.stringify
Quote == "\""
Backslash == "\\"

RECURSIVE Escape(_)
Escape(s) ==
  IF s = <<>> THEN <<>>
  ELSE (IF Head(s) \in {Quote, Backslash} THEN <<Backslash, Head(s)>> ELSE <<Head(s)>>)
       \o Escape(Tail(s))

StringifyString(s) == <<Quote>> \o Escape(s) \o <<Quote>>

RECURSIVE StringifyEntries(_)
StringifyEntries(es) ==
  IF es = <<>> THEN <<>>
  ELSE StringifyString(es[1][1]) \o <<":">>
       \o (IF es[1][2].kind = "map"
             THEN <<"{">> \o StringifyEntries(es[1][2].entries) \o <<"}">>
             ELSE StringifyString(es[1][2].text))
       \o (IF Len(es) > 1 THEN <<",">> ELSE <<>>)
       \o StringifyEntries(Tail(es))

JSONStringify(obj) == <<"{">> \o StringifyEntries(obj) \o <<"}">>

\* -------------------------------------- replace(/\b(gt|gte|lt|lte|in)\b/g)
OperatorTokens == << <<"g","t">>, <<"g","t","e">>, <<"l","t">>, <<"l","t","e">>, <<"i","n">> >>

\* \b at the gap before position i of s
WordBoundary(s, i) ==
  LET before == i > 1 /\ i - 1 <= Len(s) /\ IsWordChar(s[i - 1])
      after  == i >= 1 /\ i <= Len(s) /\ IsWordChar(s[i])
  IN before # after

TokenAt(s, i, tok) ==
  /\ WordBoundary(s, i)
  /\ i + Len(tok) - 1 <= Len(s)
  /\ SubSeq(s, i, i + Len(tok) - 1) = tok
  /\ WordBoundary(s, i + Len(tok))

\* the alternatives are tried in the order written
MatchAt(s, i) ==
  LET hits == {k \in 1..Len(OperatorTokens) : TokenAt(s, i, OperatorTokens[k])}
  IN IF hits = {} THEN <<>>
     ELSE OperatorTokens[CHOOSE k \in hits : \A j \in hits : k <= j]

RECURSIVE ReplaceFrom(_, _)
ReplaceFrom(s, i) ==
  IF i > Len(s) THEN <<>>
  ELSE LET m == MatchAt(s, i)
       IN IF m = <<>>
            THEN <<s[i]>> \o ReplaceFrom(s, i + 1)
            ELSE <<"$">> \o m \o ReplaceFrom(s, i + Len(m))

ReplaceOperators(s) == ReplaceFrom(s, 1)

\* -------------------------------------------------------------- JSON.parse
\* A string starting at the opening quote at position i: [text, next]
RECURSIVE ParseChars(_, _)
ParseChars(s, i) ==
  IF s[i] = Quote THEN [text |-> <<>>, next |-> i + 1]
  ELSE IF s[i] = Backslash
    THEN LET r == ParseChars(s, i + 2)
         IN [text |-> <<s[i + 1]>> \o r.text, next |-> r.next]
    ELSE LET r == ParseChars(s, i + 1)
         IN [text |-> <<s[i]>> \o r.text, next |-> r.next]
ParseString(s, i) == ParseChars(s, i + 1)

\* The members of an object, from position i just after "{" or ",": [obj, next]
RECURSIVE ParseMembers(_, _, _)
ParseMembers(s, i, acc) ==
  IF s[i] = "}" THEN [obj |-> acc, next |-> i + 1]
  ELSE IF s[i] = "," THEN ParseMembers(s, i + 1, acc)
  ELSE LET k == ParseString(s, i)
           j == k.next + 1
       IN IF s[j] = "{"
            THEN LET inner == ParseMembers(s, j + 1, <<>>)
                 IN ParseMembers(s, inner.next, Put(acc, k.text, Map(inner.obj)))
            ELSE LET v == ParseString(s, j)
                 IN ParseMembers(s, v.next, Put(acc, k.text, Text(v.text)))

JSONParse(s) == ParseMembers(s, 2, <<>>).obj

\* ---------------------------------------------------------------- parseInt
WhiteSpace == {" "}
ObjectText == <<"[","o","b","j","e","c","t"," ","O","b","j","e","c","t","]">>
UndefinedText == <<"u","n","d","e","f","i","n","e","d">>

\* ToString of the argument of parseInt
ToStringValue(v) ==
  IF v.kind = "text" THEN v.text
  ELSE IF v.kind = "map" THEN ObjectText
  ELSE UndefinedText

RECURSIVE TrimStart(_)
TrimStart(s) ==
  IF s # <<>> /\ Head(s) \in WhiteSpace THEN TrimStart(Tail(s)) ELSE s

\* the value of the longest prefix of decimal digits, most significant first
RECURSIVE DigitsValue(_, _)
DigitsValue(s, acc) ==
  IF s = <<>> \/ Head(s) \notin DigitSet THEN acc
  ELSE DigitsValue(Tail(s), acc * 10 + DigitValue(Head(s)))

NaN == [nan |-> TRUE, val |-> 0]
Num(n) == [nan |-> FALSE, val |-> n]

\* parseInt(v, 10)
ParseInt(v) ==
  LET s    == TrimStart(ToStringValue(v))
      neg  == s # <<>> /\ Head(s) = "-"
      body == IF s # <<>> /\ Head(s) \in {"-", "+"} THEN Tail(s) ELSE s
  IN IF body = <<>> \/ Head(body) \notin DigitSet THEN NaN
     ELSE Num(IF neg THEN 0 - DigitsValue(body, 0) ELSE DigitsValue(body, 0))

Falsy(n) == n.nan \/ n.val = 0

DefaultPage  == 1
DefaultLimit == 25


\* PageOf with a non-positive page replaced by the default
PageOfClamped(q) ==
  LET n == ParseInt(Get(q, <<"p","a","g","e">>))
  IN IF Falsy(n) \/ n.val < 0 THEN DefaultPage ELSE n.val

\* parseInt(req.query.page, 10) || 1
PageOf(q) ==
  LET n == ParseInt(Get(q, <<"p","a","g","e">>))
  IN IF Falsy(n) THEN DefaultPage ELSE n.val


\* LimitOf falling back to the page default
LimitOfPageDefault(q) ==
  LET n == ParseInt(Get(q, <<"l","i","m","i","t">>))
  IN IF Falsy(n) THEN DefaultPage ELSE n.val

\* parseInt(req.query.limit, 10) || 25
LimitOf(q) ==
  LET n == ParseInt(Get(q, <<"l","i","m","i","t">>))
  IN IF Falsy(n) THEN DefaultLimit ELSE n.val

\* a JavaScript value used as a condition
Truthy(v) ==
  IF v.kind = "undefined" THEN FALSE
  ELSE IF v.kind = "text" THEN v.text # <<>>
  ELSE TRUE

\* ------------------------------------------------- getBootcamps, lines 14-49
removeFields ==
  << <<"s","e","l","e","c","t">>, <<"s","o","r","t">>,
     <<"p","a","g","e">>, <<"l","i","m","i","t">> >>

RECURSIVE DeleteAll(_, _)
DeleteAll(obj, ks) ==
  IF ks = <<>> THEN obj ELSE DeleteAll(Delete(obj, Head(ks)), Tail(ks))

\* const reqQuery = {...req.query}; removeFields.forEach(delete)
reqQuery(q) == DeleteAll(q, removeFields)

\* the argument of Bootcamp.find
FindArgument(q) == JSONParse(ReplaceOperators(JSONStringify(reqQuery(q))))

\* x.split(',').join(' ') is a TypeError unless x is a string
CanSplit(v) == v.kind = "text"
SplitJoin(v) == Join(Split(v.text, ","), " ")

SelectOf(q) == Get(q, <<"s","e","l","e","c","t">>)
SortOf(q)   == Get(q, <<"s","o","r","t">>)

DefaultSort == <<"-","c","r","e","a","t","e","d","A","t">>

\* the synchronous part of the handler throws
BuildThrows(q) ==
  \/ Truthy(SelectOf(q)) /\ ~CanSplit(SelectOf(q))
  \/ Truthy(SortOf(q)) /\ ~CanSplit(SortOf(q))

\* the argument of query.select, if it is called
FieldsOf(q) == IF Truthy(SelectOf(q)) THEN <<SplitJoin(SelectOf(q))>> ELSE <<>>


\* SortByOf that leaves the commas in
SortByOfUnsplit(q) == IF Truthy(SortOf(q)) THEN SortOf(q).text ELSE DefaultSort

\* the argument of query.sort
SortByOf(q) == IF Truthy(SortOf(q)) THEN SplitJoin(SortOf(q)) ELSE DefaultSort

StartIndexOf(p, l) == (p - 1) * l
EndIndexOf(p, l) == p * l


\* NextOf with <= for <
NextOfInclusive(p, l, e, t) ==
  IF e <= t THEN <<[page |-> p + 1, limit |-> l]>> ELSE <<>>

\* pagination.next, lines 57-62
NextOf(p, l, e, t) ==
  IF e < t THEN <<[page |-> p + 1, limit |-> l]>> ELSE <<>>


\* PrevOf testing the page alone
PrevOfByPage(p, l, st) ==
  IF p > 1 THEN <<[page |-> p - 1, limit |-> l]>> ELSE <<>>

\* pagination.prev, lines 64-69
PrevOf(p, l, st) ==
  IF st > 0 THEN <<[page |-> p - 1, limit |-> l]>> ELSE <<>>

\* ------------------------------------------------------------------- state
VARIABLES
  bootcamps,    \* the collection: id -> photo
  pc,           \* getBootcamps: "idle", "counting", "executing", "done", "failed"
  query,        \* req.query
  findArg,      \* the argument of Bootcamp.find
  fields,       \* the argument of query.select, if called
  sortBy,       \* the argument of query.sort
  page, limit, startIndex, endIndex, total,
  window,       \* the arguments of query.skip and query.limit
  pagination,
  res,          \* what the handler sent
  env,          \* process.env.MAX_FILE_UPLOAD
  upPc,         \* bootcampPhotoUpload: "idle", "finding", "moving", "updating", "done"
  upReq,        \* its request: params.id and files
  bootcamp,     \* what findById returned: <<>> for null, else <<id>>
  fileName,     \* file.name after line 183
  forwarded,    \* the errors handed to next
  upRes         \* what the handler sent

listVars == <<pc, query, findArg, fields, sortBy, page, limit, startIndex,
              endIndex, total, window, pagination, res>>
upVars == <<env, upPc, upReq, bootcamp, fileName, forwarded, upRes>>
vars == <<bootcamps, listVars, upVars>>

Ids == 1..MaxDocs
NoPhoto == <<"n","o","-","p","h","o","t","o",".","j","p","g">>

NoPagination == [next |-> <<>>, prev |-> <<>>]
NoWindow == [set |-> FALSE, skip |-> 0, limit |-> 0]
NoRes == [kind |-> "none", error |-> "", count |-> 0, pagination |-> NoPagination, data |-> <<>>]

\* ------------------------------------------------------------ the requests
RECURSIVE NatText(_)
NatText(n) ==
  IF n < 10 THEN <<DigitChars[n + 1]>>
  ELSE NatText(n \div 10) \o <<DigitChars[(n % 10) + 1]>>
IntText(n) == IF n < 0 THEN <<"-">> \o NatText(0 - n) ELSE NatText(n)

NumberTexts == {IntText(n) : n \in (0 - MaxNum)..MaxNum}
OtherTexts == {<<>>, <<"a","b","c">>, <<"2","x">>, <<" ","1">>}
NestedValue == Map(<< <<<<"g","t">>, Text(<<"1">>)>> >>)

PagingValues ==
  {Undefined, NestedValue} \cup {Text(t) : t \in NumberTexts \cup OtherTexts}

SelectValues ==
  {Undefined, NestedValue,
   Text(<<"n","a","m","e",",","e","m","a","i","l">>)}

SortValues ==
  {Undefined, NestedValue, Text(<<>>),
   Text(<<"n","a","m","e">>),
   Text(<<"n","a","m","e",",","-","r","a","t","i","n","g">>),
   Text(<<"a"," ","b">>)}

kName  == <<"n","a","m","e">>
kPrice == <<"p","r","i","c","e">>
Nested(op, val) == Map(<< <<op, Text(val)>> >>)

FilterSamples ==
  { <<>>,
    << <<kName, Text(<<"x">>)>> >>,
    << <<kName, Text(<<"i","n">>)>> >>,
    << <<kName, Text(<<"a","\"","b">>)>> >>,
    << <<<<"l","t">>, Text(<<"5">>)>> >>,
    << <<kPrice, Nested(<<"g","t">>, <<"1","0">>)>> >>,
    << <<kPrice, Map(<< <<<<"g","t","e">>, Text(<<"1">>)>>, <<<<"l","t">>, Text(<<"9">>)>> >>)>> >>,
    << <<kPrice, Map(<< <<<<"l","t","e">>, Text(<<"5">>)>>, <<<<"i","n">>, Text(<<"a">>)>> >>)>> >>,
    << <<kPrice, Nested(<<"e","q">>, <<"1","0">>)>> >>,
    << <<kPrice, Nested(<<"G","T">>, <<"1">>)>> >>,
    << <<kPrice, Nested(<<"g","t","x">>, <<"1">>)>> >>,
    << <<kPrice, Nested(<<"n","o","t","-","i","n">>, <<"a">>)>> >>,
    << <<kName, Text(<<"x">>)>>, <<kPrice, Nested(<<"g","t">>, <<"l","t">>)>> >> }

Entry(k, v) == IF v.kind = "undefined" THEN <<>> ELSE << <<k, v>> >>

Request(f, sel, srt, pg, lim) ==
  f \o Entry(<<"s","e","l","e","c","t">>, sel) \o Entry(<<"s","o","r","t">>, srt)
    \o Entry(<<"p","a","g","e">>, pg) \o Entry(<<"l","i","m","i","t">>, lim)

\* page and limit range over all their values under the plain request, and over
\* FewPagingValues beside every other select, sort and filter
FewPagingValues ==
  {Undefined, Text(<<"2">>), Text(<<"-","1">>), Text(<<"a","b","c">>)}

Requests ==
  {Request(<<>>, Undefined, Undefined, pg, lim) :
     pg \in PagingValues, lim \in PagingValues}
  \cup
  {Request(<<>>, sel, srt, pg, lim) :
     sel \in SelectValues, srt \in SortValues,
     pg \in FewPagingValues, lim \in FewPagingValues}
  \cup
  {Request(f, Undefined, Undefined, pg, lim) :
     f \in FilterSamples, pg \in FewPagingValues, lim \in FewPagingValues}

\* ------------------------------------------------------------------- store
RECURSIVE Ascending(_)
Ascending(S) ==
  IF S = {} THEN <<>>
  ELSE LET m == CHOOSE x \in S : \A y \in S : x <= y
       IN <<m>> \o Ascending(S \ {m})

Abs(n) == IF n < 0 THEN 0 - n ELSE n
Min(a, b) == IF a < b THEN a ELSE b

\* the documents a query returns: the matching ones in sort order, skip
\* passed over, at most |limit| kept (the store reads a negative limit as its
\* absolute value)
Page(matched, skip, lim) ==
  LET all == Ascending(matched)
  IN SubSeq(all, skip + 1, Min(Len(all), skip + Abs(lim)))

\* the documents that satisfy a predicate: all of them under the empty one
Matches(pred) ==
  IF pred = <<>> THEN {DOMAIN bootcamps} ELSE SUBSET (DOMAIN bootcamps)

\* the length of the exported handler, a function Express calls with
\* (req, res, next)
HandlerLengths == 0..3

\* ------------------------------------------------------------------ actions
\* req.files when nothing was uploaded
NoFiles == [given |-> FALSE, file |-> <<>>]
NoUpReq == [id |-> 0, files |-> NoFiles]
NoUpRes == [kind |-> "none", data |-> <<>>]

InitList ==
  /\ pc = "idle"
  /\ query = <<>>
  /\ findArg = <<>>
  /\ fields = <<>>
  /\ sortBy = <<>>
  /\ page = 0 /\ limit = 0 /\ startIndex = 0 /\ endIndex = 0 /\ total = 0
  /\ window = NoWindow
  /\ pagination = NoPagination
  /\ res = NoRes

InitUpload ==
  /\ upPc = "idle"
  /\ upReq = NoUpReq
  /\ bootcamp = <<>>
  /\ fileName = <<>>
  /\ forwarded = <<>>
  /\ upRes = NoUpRes

Collections == {[i \in 1..n |-> NoPhoto] : n \in 0..MaxDocs}

Init ==
  /\ bootcamps \in Collections
  /\ env = Undefined
  /\ InitList
  /\ InitUpload

\* lines 10-50: the handler up to its first await
getBootcampsStart(q) ==
  /\ pc = "idle"
  /\ query' = q
  /\ findArg' = FindArgument(q)
  /\ IF BuildThrows(q)
       THEN /\ pc' = "failed"
            /\ fields' = IF Truthy(SelectOf(q)) /\ CanSplit(SelectOf(q))
                           THEN FieldsOf(q) ELSE <<>>
            /\ res' = [NoRes EXCEPT !.kind = "error", !.error = "TypeError"]
            /\ UNCHANGED <<sortBy, page, limit, startIndex, endIndex>>
       ELSE /\ pc' = "counting"
            /\ fields' = FieldsOf(q)
            /\ sortBy' = SortByOf(q)
            /\ page' = PageOf(q)
            /\ limit' = LimitOf(q)
            /\ startIndex' = StartIndexOf(PageOf(q), LimitOf(q))
            /\ endIndex' = EndIndexOf(PageOf(q), LimitOf(q))
            /\ res' = res
  /\ UNCHANGED <<bootcamps, total, window, pagination, upVars>>

\* lines 50-72: countDocuments resolves, the handler runs to its second await
CountResolved ==
  /\ pc = "counting"
  /\ total' = Cardinality(DOMAIN bootcamps)
  /\ window' = [set |-> TRUE, skip |-> startIndex, limit |-> limit]
  /\ pagination' = [next |-> NextOf(page, limit, endIndex, Cardinality(DOMAIN bootcamps)),
                    prev |-> PrevOf(page, limit, startIndex)]
  /\ pc' = "executing"
  /\ UNCHANGED <<bootcamps, query, findArg, fields, sortBy, page, limit,
                 startIndex, endIndex, res, upVars>>

\* lines 72-79: the query resolves and the response is sent; a store that
\* accepts a negative skip skips nothing
QueryResolved ==
  /\ pc = "executing"
  /\ \E matched \in Matches(findArg), n \in HandlerLengths :
       res' = [kind |-> "json", error |-> "", count |-> n, pagination |-> pagination,
               data |-> Page(matched, IF window.skip < 0 THEN 0 ELSE window.skip,
                             window.limit)]
  /\ pc' = "done"
  /\ UNCHANGED <<bootcamps, query, findArg, fields, sortBy, page, limit,
                 startIndex, endIndex, total, window, pagination, upVars>>

\* line 72: the store refuses a negative skip and the handler's promise rejects
QueryRejected ==
  /\ pc = "executing"
  /\ window.skip < 0
  /\ res' = [NoRes EXCEPT !.kind = "error", !.error = "StoreError"]
  /\ pc' = "failed"
  /\ UNCHANGED <<bootcamps, query, findArg, fields, sortBy, page, limit,
                 startIndex, endIndex, total, window, pagination, upVars>>

\* the request is over
Close ==
  /\ pc \in {"done", "failed"}
  /\ pc' = "idle"
  /\ query' = <<>> /\ findArg' = <<>> /\ fields' = <<>> /\ sortBy' = <<>>
  /\ page' = 0 /\ limit' = 0 /\ startIndex' = 0 /\ endIndex' = 0 /\ total' = 0
  /\ window' = NoWindow /\ pagination' = NoPagination /\ res' = NoRes
  /\ UNCHANGED <<bootcamps, upVars>>

Next ==
  \/ \E q \in Requests : getBootcampsStart(q)
  \/ CountResolved
  \/ QueryResolved
  \/ QueryRejected
  \/ Close

Spec == Init /\ [][Next]_vars
\* ------------------------------------------- bootcampPhotoUpload, store
\* lines 103-112, another request: Bootcamp.create
createBootcamp ==
  /\ Cardinality(DOMAIN bootcamps) < MaxDocs
  /\ LET id == CHOOSE i \in Ids : i \notin DOMAIN bootcamps /\
                    \A j \in Ids : j < i => j \in DOMAIN bootcamps
     IN bootcamps' = [i \in DOMAIN bootcamps \cup {id} |->
                        IF i = id THEN NoPhoto ELSE bootcamps[i]]
  /\ UNCHANGED <<listVars, upVars>>

\* lines 138-153, another request: bootcamp.remove
deleteBootcamp(id) ==
  /\ id \in DOMAIN bootcamps
  /\ bootcamps' = [i \in DOMAIN bootcamps \ {id} |-> bootcamps[i]]
  /\ UNCHANGED <<listVars, upVars>>


\* ToNumber of the right operand of >: undefined is NaN, "" is 0
ToNumber(v) ==
  IF v.kind = "text" /\ \A i \in 1..Len(v.text) : v.text[i] \in DigitSet
    THEN Num(DigitsValue(v.text, 0))
    ELSE NaN

\* file.size > process.env.MAX_FILE_UPLOAD: false against NaN
TooLarge(size, max) == ~ToNumber(max).nan /\ size > ToNumber(max).val

\* path.parse(name).ext: from the last dot of the name, unless it leads
Ext(name) ==
  LET dots == {i \in 2..Len(name) : name[i] = "."}
  IN IF dots = {} THEN <<>>
     ELSE SubSeq(name, CHOOSE i \in dots : \A j \in dots : j <= i, Len(name))

\* `photo_${bootcamp._id}${path.parse(file.name).ext}`
PhotoName(id, name) == <<"p","h","o","t","o","_">> \o IntText(id) \o Ext(name)

ImagePrefix == <<"i","m","a","g","e">>
IsImage(file) == StartsWith(file.mimetype, ImagePrefix)

Error(status, message) == [status |-> status, message |-> message]
\* an exception thrown in the handler: the rejection the async wrapper forwards
Thrown(name) == [status |-> 0, message |-> name]

MimeTypes ==
  { <<"i","m","a","g","e","/","p","n","g">>, <<"t","e","x","t","/","p","n","g">> }
FileNames == { <<"a",".","p","n","g">>, <<"b">> }
Files ==
  {[mimetype |-> m, size |-> z, name |-> n] :
     m \in MimeTypes, z \in 0..MaxSize, n \in FileNames}

\* req.files: null, an upload under another field, an upload under "file"
FilesValues ==
  {NoFiles, [given |-> TRUE, file |-> <<>>]}
  \cup {[given |-> TRUE, file |-> <<f>>] : f \in Files}

EnvValues == {Undefined, Text(<<"1">>)}

\* the request arrives: line 160 starts findById
bootcampPhotoUploadStart(id, files) ==
  /\ upPc = "idle"
  /\ upReq' = [id |-> id, files |-> files]
  /\ upPc' = "finding"
  /\ UNCHANGED <<bootcamps, listVars, env, bootcamp, fileName, forwarded, upRes>>

\* lines 160-185: findById resolves, the checks run, file.mv is called
FindResolved ==
  /\ upPc = "finding"
  /\ LET found == upReq.id \in DOMAIN bootcamps
         files == upReq.files
         Reject(e) == /\ forwarded' = Append(forwarded, e)
                      /\ upPc' = "done"
                      /\ fileName' = fileName
     IN /\ bootcamp' = IF found THEN <<upReq.id>> ELSE <<>>
        /\ IF ~found
             THEN Reject(Error(404, "not found"))
           ELSE IF ~files.given
             THEN Reject(Error(400, "upload a file"))
           ELSE IF files.file = <<>>
             THEN Reject(Thrown("TypeError"))
           ELSE IF ~IsImage(files.file[1])
             THEN Reject(Error(400, "upload an image file"))
           ELSE IF TooLarge(files.file[1].size, env)
             THEN Reject(Error(400, "image too large"))
           ELSE /\ fileName' = PhotoName(upReq.id, files.file[1].name)
                /\ upPc' = "moving"
                /\ forwarded' = forwarded
  /\ UNCHANGED <<bootcamps, listVars, env, upReq, upRes>>

\* lines 185-189: the move failed
MoveFailed ==
  /\ upPc = "moving"
  /\ forwarded' = Append(forwarded, Error(500, "problem with file upload"))
  /\ upPc' = "done"
  /\ UNCHANGED <<bootcamps, listVars, env, upReq, bootcamp, fileName, upRes>>

\* lines 185-191: the move succeeded and findByIdAndUpdate is sent
MoveSucceeded ==
  /\ upPc = "moving"
  /\ upPc' = "updating"
  /\ UNCHANGED <<bootcamps, listVars, env, upReq, bootcamp, fileName, forwarded, upRes>>

\* lines 191-196: the update is applied if the document is still there, and
\* the response is sent
UpdateResolved ==
  /\ upPc = "updating"
  /\ bootcamps' = IF upReq.id \in DOMAIN bootcamps
                    THEN [bootcamps EXCEPT ![upReq.id] = fileName]
                    ELSE bootcamps
  /\ upRes' = [kind |-> "json", data |-> fileName]
  /\ upPc' = "done"
  /\ UNCHANGED <<listVars, env, upReq, bootcamp, fileName, forwarded>>

\* the request is over
UploadClose ==
  /\ upPc = "done"
  /\ upPc' = "idle" /\ upReq' = NoUpReq /\ bootcamp' = <<>>
  /\ fileName' = <<>> /\ forwarded' = <<>> /\ upRes' = NoUpRes
  /\ UNCHANGED <<bootcamps, listVars, env>>

InitUploadSpec ==
  /\ bootcamps \in Collections
  /\ env \in EnvValues
  /\ InitList
  /\ InitUpload

NextUpload ==
  \/ \E id \in Ids, files \in FilesValues : bootcampPhotoUploadStart(id, files)
  \/ FindResolved
  \/ MoveFailed
  \/ MoveSucceeded
  \/ UpdateResolved
  \/ UploadClose
  \/ createBootcamp
  \/ \E id \in Ids : deleteBootcamp(id)

SpecUpload == InitUploadSpec /\ [][NextUpload]_vars

\* ------------------------------------------------------------------ claims
Built == pc \in {"counting", "executing", "done"}
Paged == pc \in {"executing", "done"}
PageParam == Get(query, <<"p","a","g","e">>)
LimitParam == Get(query, <<"l","i","m","i","t">>)

\* C1: pagination.next is present exactly when page * limit < total, total
\* being the size of the whole collection whatever the filter; when present
\* it is {page + 1, limit}.
C1_NextIffMorePages ==
  Paged =>
    /\ total = Cardinality(DOMAIN bootcamps)
    /\ (pagination.next # <<>>) <=> (page * limit < total)
    /\ pagination.next # <<>> =>
         pagination.next = <<[page |-> page + 1, limit |-> limit]>>
    /\ pc = "done" => res.pagination = pagination

\* C1 witness: a filtered request that matched nothing still gets a next page
C1_Witness ==
  /\ pc = "done" /\ findArg # <<>> /\ res.data = <<>>
  /\ res.pagination.next = <<[page |-> 2, limit |-> 2]>>
  /\ total = MaxDocs

\* C2 as stated: pagination.prev is present exactly when page > 1, for every
\* page and limit the parsing produces, and is then {page - 1, limit}.
C2_PrevIffPageAboveOne ==
  Paged =>
    /\ (pagination.prev # <<>>) <=> (page > 1)
    /\ pagination.prev # <<>> =>
         pagination.prev = <<[page |-> page - 1, limit |-> limit]>>

\* C2 amended: pagination.prev is present exactly when page - 1 and limit are
\* both positive or both negative, and is then {page - 1, limit}.
C2_PrevIffPositiveOffset ==
  Paged =>
    /\ (pagination.prev # <<>>) <=>
         ((page > 1 /\ limit > 0) \/ (page < 1 /\ limit < 0))
    /\ limit > 0 => ((pagination.prev # <<>>) <=> (page > 1))
    /\ pagination.prev # <<>> =>
         pagination.prev = <<[page |-> page - 1, limit |-> limit]>>

\* C2 witness: a previous page below page 1, and none above it
C2_Witness ==
  /\ Paged /\ page < 1 /\ limit < 0
  /\ pagination.prev = <<[page |-> page - 1, limit |-> limit]>>

\* a parameter that is missing or holds no digit
NonNumeric(v) == v.kind # "text" \/ \A i \in 1..Len(v.text) : v.text[i] \notin DigitSet

IsNumber(v, n) == v = Text(IntText(n))

\* C4 as stated: a zero or negative page or limit is used as it is, and the
\* skip and limit handed to the store come from the unmodified values.
C4_NonPositiveUnmodified ==
  Paged =>
    \A n \in (0 - MaxNum)..0 :
      /\ IsNumber(PageParam, n) => page = n
      /\ IsNumber(LimitParam, n) => limit = n

\* C4 amended: a negative page or limit is used as it is, a zero page is
\* page 1 and a zero limit is limit 25; the store gets skip (page - 1) * limit
\* and that limit.
C4_NegativeUnmodifiedZeroDefault ==
  Paged =>
    /\ \A n \in (0 - MaxNum)..(0 - 1) :
         /\ IsNumber(PageParam, n) => page = n
         /\ IsNumber(LimitParam, n) => limit = n
    /\ IsNumber(PageParam, 0) => page = 1
    /\ IsNumber(LimitParam, 0) => limit = 25
    /\ window = [set |-> TRUE, skip |-> (page - 1) * limit, limit |-> limit]

\* C4 witness: a negative page hands the store a negative skip
C4_Witness ==
  /\ Paged /\ IsNumber(PageParam, 0 - 1) /\ IsNumber(LimitParam, 2)
  /\ page = 0 - 1 /\ window.skip = 0 - 4 /\ window.limit = 2

\* C5: building the filter, projection, sort and pagination never throws.
C5_BuildNeverThrows == res.error # "TypeError"

ReservedKeys == {removeFields[i] : i \in 1..Len(removeFields)}
WithoutReserved(q) == SelectSeq(q, LAMBDA e : e[1] \notin ReservedKeys)
AllLiteral(obj) == \A i \in 1..Len(obj) : obj[i][2].kind = "text"

\* C6: when every non-reserved value is a plain literal, the predicate handed
\* to the store is the input without select, sort, page and limit.
C6_LiteralsPassThrough ==
  pc # "idle" /\ AllLiteral(WithoutReserved(query)) =>
    findArg = WithoutReserved(query)

OperatorSet == {OperatorTokens[i] : i \in 1..Len(OperatorTokens)}
Translated(op) == IF op \in OperatorSet THEN <<"$">> \o op ELSE op

\* C7: under a non-reserved key with a nested mapping, an operator key that is
\* exactly gt, gte, lt, lte or in gets a "$" in front and every other operator
\* key is unchanged.
C7_OperatorKeysTranslated ==
  pc # "idle" =>
    LET given == WithoutReserved(query)
    IN /\ Len(findArg) = Len(given)
       /\ \A i \in 1..Len(given) :
            given[i][2].kind = "map" =>
              /\ findArg[i][2].kind = "map"
              /\ Len(findArg[i][2].entries) = Len(given[i][2].entries)
              /\ \A j \in 1..Len(given[i][2].entries) :
                   findArg[i][2].entries[j][1] = Translated(given[i][2].entries[j][1])

\* C8: in a success response count is the number of documents in data.
C8_CountIsDataLength == res.kind = "json" => res.count = Len(res.data)

\* the tokens a sort string holds, one space between two
SortTokens(s) == Split(s, " ")

\* C9 as stated: without sort the store sorts by -createdAt; with sort it gets
\* the comma-separated tokens of sort, in order, none added or dropped.
C9_SortTokensPreserved ==
  Built =>
    /\ SortOf(query).kind = "undefined" => sortBy = DefaultSort
    /\ SortOf(query).kind = "text" =>
         SortTokens(sortBy) = Split(SortOf(query).text, ",")

\* C9 amended: without sort, or with an empty one, the store sorts by
\* -createdAt; with a sort text that holds no space it gets the
\* comma-separated tokens of sort, in order, none added or dropped.
C9_SortTokensPreservedNoSpace ==
  Built =>
    /\ SortOf(query).kind = "undefined" \/ SortOf(query) = Text(<<>>) =>
         sortBy = DefaultSort
    /\ /\ SortOf(query).kind = "text" /\ SortOf(query).text # <<>>
       /\ \A i \in 1..Len(SortOf(query).text) : SortOf(query).text[i] # " "
       => SortTokens(sortBy) = Split(SortOf(query).text, ",")

\* C9 witness: sort=name,-rating reaches the store as name then -rating
C9_Witness ==
  /\ Built
  /\ SortOf(query) = Text(<<"n","a","m","e",",","-","r","a","t","i","n","g">>)
  /\ SortTokens(sortBy) = << <<"n","a","m","e">>, <<"-","r","a","t","i","n","g">> >>
UploadedFile == upReq.files.file
\* the checks of the upload, as the claim names them
BootcampExists == bootcamp' # <<>>
FileUploaded == upReq.files.given
MimeIsImage == UploadedFile # <<>> /\ StartsWith(UploadedFile[1].mimetype, ImagePrefix)
SizeWithinLimit ==
  /\ UploadedFile # <<>>
  /\ \A n \in 0..MaxSize : env = Text(IntText(n)) => UploadedFile[1].size <= n

\* the error of the first check that fails, in the order of the claim
ExpectedError ==
  IF ~BootcampExists THEN Error(404, "not found")
  ELSE IF ~FileUploaded THEN Error(400, "upload a file")
  ELSE IF ~MimeIsImage THEN Error(400, "upload an image file")
  ELSE IF ~SizeWithinLimit THEN Error(400, "image too large")
  ELSE Error(500, "problem with file upload")

UploadStep ==
  /\ upRes'.kind = "json" /\ upRes.kind = "none" =>
       /\ BootcampExists /\ FileUploaded /\ MimeIsImage /\ SizeWithinLimit
       /\ upPc = "updating" /\ forwarded' = <<>>
  /\ bootcamps' # bootcamps /\ upPc' # upPc =>
       /\ BootcampExists /\ FileUploaded /\ MimeIsImage /\ SizeWithinLimit
       /\ upPc = "updating" /\ forwarded' = <<>>
  /\ forwarded' # forwarded /\ forwarded' # <<>> =>
       /\ forwarded' = <<ExpectedError>>
       /\ bootcamps' = bootcamps
       /\ upRes'.kind = "none"
       /\ upPc' = "done"

\* C10: the upload changes the photo and answers with success only after the
\* bootcamp was found, a file was uploaded, it is an image, it is not larger
\* than MAX_FILE_UPLOAD and the move succeeded; a failed check forwards its
\* one error (404, 400, 400, 400, 500 in that order), sends no success and
\* leaves the store alone.
C10_UploadOnlyAfterChecks == [][UploadStep]_vars
=============================================================================
